---- MODULE Spec2Model ----
(***************************************************************************)
(* panel-hopper, src/src/panel_hopper/core.py: the pool of persistent BLE  *)
(* sessions (PERSISTENT_SESSIONS, get_persistent_session,                  *)
(* close_all_sessions), PersistentSession, and PanelController's           *)
(* send_to_panel / send_to_multiple / send_same_to_all.                    *)
(*                                                                         *)
(* The coroutines run as asyncio tasks: a task runs without interruption   *)
(* from one suspending await to the next, so every action below is one     *)
(* such stretch of code.  BleDisplaySession (bk_light) is outside the      *)
(* repository: each of its operations (_connect, send_png,                 *)
(* _safe_disconnect) completes with an outcome the model draws from a      *)
(* small set.  The display name and the PNG payload only reach the log     *)
(* and the session, and are left out.                                      *)
(***************************************************************************)
EXTENDS Integers, Sequences, FiniteSets, TLC

VARIABLES pool, links, tk, calls, used, prev, ctl, cbs, active, budget

vars == <<pool, links, tk, calls, used, prev, ctl, cbs, active, budget>>

\* ------------------------------------------------------------------ bounds
\* Runs of single sends and pool calls: the calls issued in one run and the
\* largest retries of the controller (PanelController's default is 3).
MaxCalls == 4
MaxRetries == 2
\* Runs of fan-out calls: the calls of one run, the targets of one call and the
\* largest retries of the controller.
FanCalls == 1
MaxTargets == 2
FanRetries == 1
\* Runs with progress callbacks, and runs of two tasks: calls and retries.
CbCalls == 2
CbRetries == 2
ConcCalls == 4
ConcRetries == 1

\* The two asyncio tasks that may issue calls.
Tasks == {1, 2}

\* ----------------------------------------------------------- addresses
\* Addresses as callers give them: four panels, one of them also in lower case.
Addrs == {"aa", "AA", "BB", "CC", "DD"}

\* mac.upper()
Upper(mac) == IF mac = "aa" THEN "AA" ELSE mac

\* Panels are interchangeable, so a run takes them into use in this order.
AddrRank(mac) ==
    CASE Upper(mac) = "AA" -> 1
      [] Upper(mac) = "BB" -> 2
      [] Upper(mac) = "CC" -> 3
      [] OTHER -> 4

\* The texts str(e) of what session._connect() and session.send_png() raise.
ConnectErr == "connect failed"
SendErr == "send failed"
DisconnectErr == "disconnect failed"

\* The text of the exception a progress callback raises.
CbText == "CB"

OkOut == [kind |-> "ok", msg |-> ""]
TimeoutOut == [kind |-> "timeout", msg |-> ""]
ErrOut(m) == [kind |-> "error", msg |-> m]

\* Outcomes of an awaited session operation under asyncio.wait_for.
TimedOutcomes(err) == {OkOut, TimeoutOut, ErrOut(err)}
\* Outcomes of an awaited session operation without a deadline of its own.
PlainOutcomes(err) == {OkOut, ErrOut(err)}

\* ------------------------------------------------------------- callbacks
NoCallback == [present |-> FALSE, raiseOn |-> {}]
OkCallback == [present |-> TRUE, raiseOn |-> {}]
Labels == {"connecting", "sending", "success", "timeout", "error"}
RaisingCallbacks == {[present |-> TRUE, raiseOn |-> {l}] : l \in Labels}

\* ------------------------------------------------------------ the pool
\* PERSISTENT_SESSIONS: a dict, kept in insertion order.
PoolKeys(p) == {p[k].key : k \in DOMAIN p}
PoolLink(p, key) == p[CHOOSE k \in DOMAIN p : p[k].key = key].link

\* The 3 of `len(PERSISTENT_SESSIONS) >= 3`.
PoolLimit == 3
\* Variant: the comparison written as `>`.
PoolFullOffByOne(p) == Len(p) > PoolLimit
\* len(PERSISTENT_SESSIONS) >= 3
PoolFull(p) == Len(p) >= PoolLimit

\* PersistentSession.__init__
NewLink(mac) == [mac |-> mac, session |-> "None", connected |-> FALSE, lockq |-> <<>>]

\* ------------------------------------------------------------ task state
NoPending == [kind |-> "none", ok |-> FALSE, msg |-> ""]
NoRet == [ok |-> FALSE, msg |-> "-"]

IdleTask ==
    [op |-> "idle", pc |-> "idle", use_persistent |-> FALSE, retries |-> 0,
     cb |-> NoCallback, panels |-> <<>>, i |-> 0, results |-> <<>>, ret |-> NoRet,
     exc |-> "", mac |-> "", link |-> 0, attempt |-> 0, session |-> "None",
     pending |-> NoPending, it_pos |-> 0, it_used |-> 0,
     outs |-> <<>>, nheld |-> 0, nfresh |-> 0, events |-> <<>>, gps |-> "none",
     preConn |-> FALSE, prevOk |-> FALSE, pooled |-> FALSE, sent |-> 0, ndelay |-> 0,
     heldFail |-> FALSE, nsettle |-> 0]

\* What a task works on: the shared state and its own locals.
World(t) == [pool |-> pool, links |-> links, prev |-> prev, me |-> tk[t], t |-> t]

\* ------------------------------------------------------ progress callback
\* progress_callback(mac, status, success): the call is recorded, and it raises
\* when the callback is one that raises on this status.
Emit(me, label, detail, final) ==
    IF me.cb.present
    THEN [me EXCEPT !.events = Append(@, [label |-> label, detail |-> detail, final |-> final])]
    ELSE me
CbRaises(me, label) == me.cb.present /\ label \in me.cb.raiseOn

\* An exception leaves the call.
Escape(W, text) == [W EXCEPT !.me = [W.me EXCEPT !.pc = "raised", !.exc = text]]

\* ------------------------------------------------------------- fan-out
\* Variant: the tuple carries the pool's key in place of the address as given.
ResultTupleUpper(mac, ok, msg) == [mac |-> Upper(mac), success |-> ok, message |-> msg]
\* results.append((mac, success, message))
ResultTuple(mac, ok, msg) == [mac |-> mac, success |-> ok, message |-> msg]

\* Variant: the loop also ends at the first failed target.
FanOutDoneOrFailed(panels, results) ==
    \/ Len(results) = Len(panels)
    \/ results # <<>> /\ ~results[Len(results)].success
\* for mac, name, png_bytes in panels: the loop ends with the list.
FanOutDone(panels, results) == Len(results) = Len(panels)

\* panels = [(mac, name, png_bytes) for mac, name in macs]
SameToAllPanels(macs) == [k \in 1..Len(macs) |-> macs[k]]

RECURSIVE Begin(_)

\* Variant: results.append(...) placed after the loop of send_to_multiple, so
\* that only the pair of the last target is recorded.
FinishAppendAfterLoop(W, ok, msg) ==
    LET me == W.me
        key == Upper(me.mac)
        lo == IF ok /\ me.use_persistent THEN key ELSE ""
        me1 == [me EXCEPT !.link = 0]
        res == Append(me.results, ResultTuple(me.mac, ok, msg))
    IN  IF me.op = "send_to_panel"
        THEN [W EXCEPT !.prev = lo,
                       !.me = [me1 EXCEPT !.pc = "returned", !.ret = [ok |-> ok, msg |-> msg]]]
        ELSE IF me.i = Len(me.panels)
        THEN [W EXCEPT !.prev = lo, !.me = [me1 EXCEPT !.pc = "returned", !.results = res]]
        ELSE Begin([W EXCEPT !.prev = lo, !.me = [me1 EXCEPT !.i = @ + 1]])
\* send_to_panel returns (ok, msg); send_to_multiple records it and goes on.
Finish(W, ok, msg) ==
    LET me == W.me
        key == Upper(me.mac)
        lo == IF ok /\ me.use_persistent THEN key ELSE ""
        me1 == [me EXCEPT !.link = 0]
        res == Append(me.results, ResultTuple(me.mac, ok, msg))
    IN  IF me.op = "send_to_panel"
        THEN [W EXCEPT !.prev = lo,
                       !.me = [me1 EXCEPT !.pc = "returned", !.ret = [ok |-> ok, msg |-> msg]]]
        ELSE IF FanOutDone(me.panels, res)
        THEN [W EXCEPT !.prev = lo, !.me = [me1 EXCEPT !.pc = "returned", !.results = res]]
        ELSE Begin([W EXCEPT !.prev = lo, !.me = [me1 EXCEPT !.results = res, !.i = @ + 1]])

\* ------------------------------------------------- ephemeral attempts
TimeoutMessage == "Connection timeout"

\* Variant: range(1, self.retries).
AttemptsLeftOneShort(attempt, retries) == attempt < retries
\* for attempt in range(1, self.retries + 1)
AttemptsLeft(attempt, retries) == attempt <= retries

\* Variant: the last attempt is taken to be number retries - 1.
LastAttemptZeroBased(attempt, retries) == attempt = retries - 1
\* Variant: the test of the last attempt never succeeds.
LastAttemptNever(attempt, retries) == FALSE
\* if attempt == self.retries
LastAttempt(attempt, retries) == attempt = retries

\* if session and not self.use_persistent
ShouldDisconnect(session, use_persistent) == session # "None" /\ ~use_persistent

\* One pass of the loop up to `await session._connect()`.
EphLoop(W, attempt) ==
    LET me == W.me
        me1 == Emit(me, "connecting", "", FALSE)
    IN  IF ~AttemptsLeft(attempt, me.retries)
        THEN Finish(W, FALSE, "Max retries exceeded")
        ELSE IF CbRaises(me, "connecting")
        THEN Escape([W EXCEPT !.me = me1], CbText)
        ELSE [W EXCEPT !.me = [me1 EXCEPT !.attempt = attempt, !.session = "new",
                                          !.nfresh = @ + 1, !.pending = NoPending,
                                          !.pc = "eph_connect"]]

\* finally: disconnect the fresh session (unless use_persistent), then sleep.
Finally(W) ==
    [W EXCEPT !.me.pc = IF ShouldDisconnect(W.me.session, W.me.use_persistent)
                        THEN "eph_disconnect" ELSE "eph_delay"]

\* Variant: the error event is emitted on every failed attempt, not only on
\* the last one.
OnErrorEveryAttempt(W, m) ==
    LET me == W.me
        me1 == Emit(me, "error", m, FALSE)
    IN  IF ~LastAttempt(me.attempt, me.retries)
        THEN Finally([W EXCEPT !.me = me1])
        ELSE IF CbRaises(me, "error")
        THEN Finally([W EXCEPT !.me = [me1 EXCEPT !.pending =
                          [kind |-> "raise", ok |-> FALSE, msg |-> CbText]]])
        ELSE Finally([W EXCEPT !.me = [me1 EXCEPT !.pending =
                          [kind |-> "return", ok |-> FALSE, msg |-> m]]])
\* except Exception as e
OnError(W, m) ==
    LET me == W.me
        me1 == Emit(me, "error", m, FALSE)
    IN  IF ~LastAttempt(me.attempt, me.retries)
        THEN Finally(W)
        ELSE IF CbRaises(me, "error")
        THEN Finally([W EXCEPT !.me = [me1 EXCEPT !.pending =
                          [kind |-> "raise", ok |-> FALSE, msg |-> CbText]]])
        ELSE Finally([W EXCEPT !.me = [me1 EXCEPT !.pending =
                          [kind |-> "return", ok |-> FALSE, msg |-> m]]])

\* Variant: the deadline only ends the wait; the attempt's connect+send
\* sequence is left running.
OnTimeoutLeavesRunning(W) == W
\* except asyncio.TimeoutError
OnTimeout(W) ==
    LET me == W.me
        me1 == Emit(me, "timeout", "", FALSE)
    IN  IF ~LastAttempt(me.attempt, me.retries)
        THEN Finally(W)
        ELSE IF CbRaises(me, "timeout")
        THEN Finally([W EXCEPT !.me = [me1 EXCEPT !.pending =
                          [kind |-> "raise", ok |-> FALSE, msg |-> CbText]]])
        ELSE Finally([W EXCEPT !.me = [me1 EXCEPT !.pending =
                          [kind |-> "return", ok |-> FALSE, msg |-> TimeoutMessage]]])

\* wait_for returned: progress_callback(mac, "success", True); return True, "OK"
OnSuccess(W) ==
    LET me == W.me
        me1 == Emit(me, "success", "", TRUE)
    IN  IF CbRaises(me, "success")
        THEN OnError([W EXCEPT !.me = me1], CbText)
        ELSE Finally([W EXCEPT !.me = [me1 EXCEPT !.pending =
                          [kind |-> "return", ok |-> TRUE, msg |-> "OK"]]])

\* Variant: without the `except Exception: pass` around _safe_disconnect().
AfterSafeDisconnectRaising(W, out) ==
    IF out.kind = "ok"
    THEN [W EXCEPT !.me = [W.me EXCEPT !.session = "closed", !.pc = "eph_delay"]]
    ELSE Escape([W EXCEPT !.me.session = "closed"], out.msg)
\* try: await session._safe_disconnect() / except Exception: pass
AfterSafeDisconnect(W, out) ==
    [W EXCEPT !.me = [W.me EXCEPT !.session = "closed", !.pc = "eph_delay"]]

\* How the attempt's wait_for ended.
OnResult(W, out) ==
    LET W1 == [W EXCEPT !.me.outs = Append(@, out)]
    IN  CASE out.kind = "ok" -> OnSuccess(W1)
          [] out.kind = "timeout" -> OnTimeout(W1)
          [] OTHER -> OnError(W1, out.msg)

\* --------------------------------------------------- the pooled path
\* PersistentSession.send_frame up to `await self.session.send_png(...)`,
\* after progress_callback(mac, "sending", False).
HeldSend(W, id) ==
    LET me == W.me
        me1 == Emit(me, "sending", "", FALSE)
    IN  IF CbRaises(me, "sending")
        THEN Escape([W EXCEPT !.me = me1], CbText)
        ELSE IF ~W.links[id].connected \/ W.links[id].session = "None"
        THEN EphLoop([W EXCEPT !.me = [me1 EXCEPT !.link = 0]], 1)
        ELSE [W EXCEPT !.me = [me1 EXCEPT !.link = id, !.pc = "held_send"]]

\* Variant: without a held link the send fails at once.
AfterGetAbsentFails(W, id) ==
    IF W.me.op = "get_persistent_session"
    THEN [W EXCEPT !.me = [W.me EXCEPT !.pc = "returned", !.link = id]]
    ELSE IF id # 0 /\ W.links[id].connected
    THEN HeldSend(W, id)
    ELSE Finish([W EXCEPT !.me.link = 0], FALSE, "Max retries exceeded")
\* get_persistent_session has returned link id (0: None).
AfterGet(W, id) ==
    IF W.me.op = "get_persistent_session"
    THEN [W EXCEPT !.me = [W.me EXCEPT !.pc = "returned", !.link = id]]
    ELSE IF id # 0 /\ W.links[id].connected
    THEN HeldSend(W, id)
    ELSE EphLoop([W EXCEPT !.me.link = 0], 1)

\* Variant: `return session`, whatever session.connected is.
AfterConnectAlways(W, id) == AfterGet(W, id)
\* return session if session.connected else None
AfterConnect(W, id) == AfterGet(W, IF W.links[id].connected THEN id ELSE 0)

\* PersistentSession.connect after wait_for: self.connected = True, or
\* `except Exception`: self.connected = False.
ConnectEnded(W, id, out) == [W EXCEPT !.links[id].connected = (out.kind = "ok")]

\* Variant: send_frame leaves self.connected as it is when send_png raises.
SendFrameFailedKeepsFlag(W, id) == [W EXCEPT !.me.heldFail = TRUE]
\* send_frame, `except Exception`: self.connected = False; return False
SendFrameFailed(W, id) ==
    [W EXCEPT !.links[id].connected = FALSE, !.me.heldFail = TRUE]

\* async with self._lock: leaving the block.
Release(W, id) == [W EXCEPT !.links[id].lockq = Tail(@)]

\* Variant: without `if self.connected and self.session: return True`.
ConnectLockedAlways(W, id) ==
    [W EXCEPT !.links[id].session = "new",
              !.me = [W.me EXCEPT !.link = id, !.nheld = @ + 1, !.pc = "held_connect"]]
\* PersistentSession.connect with the lock held, up to `await wait_for(_connect())`.
ConnectLocked(W, id) ==
    IF W.links[id].connected /\ W.links[id].session # "None"
    THEN AfterConnect(Release(W, id), id)
    ELSE [W EXCEPT !.links[id].session = "new",
                   !.me = [W.me EXCEPT !.link = id, !.nheld = @ + 1, !.pc = "held_connect"]]

\* PersistentSession.connect: async with self._lock
ConnectEnter(W, id) ==
    IF W.links[id].lockq = <<>>
    THEN ConnectLocked([W EXCEPT !.links[id].lockq = <<W.t>>], id)
    ELSE [W EXCEPT !.links[id].lockq = Append(@, W.t),
                   !.me = [W.me EXCEPT !.link = id, !.pc = "lock_wait"]]

\* Variant: a new session is connected whether or not the link is connected.
ConnectIfNeededReconnects(W, id) ==
    [W EXCEPT !.links[id].lockq = <<W.t>>, !.links[id].session = "new",
              !.me = [W.me EXCEPT !.link = id, !.nheld = @ + 1, !.pc = "held_connect"]]
\* if not session.connected: await session.connect()
ConnectIfNeeded(W, id) ==
    IF ~W.links[id].connected THEN ConnectEnter(W, id) ELSE AfterConnect(W, id)

\* Variant: a full pool drops its oldest entry to admit the new address.
GetPersistentEvicting(W) ==
    LET key == Upper(W.me.mac)
        id == Len(W.links) + 1
        room == IF PoolFull(W.pool) THEN Tail(W.pool) ELSE W.pool
    IN  IF key \notin PoolKeys(W.pool)
        THEN ConnectIfNeeded(
                 [W EXCEPT !.links = Append(@, NewLink(key)),
                           !.pool = Append(room, [key |-> key, link |-> id]),
                           !.me.gps = IF PoolFull(W.pool) THEN "full" ELSE "new"], id)
        ELSE ConnectIfNeeded([W EXCEPT !.me.gps = "found"], PoolLink(W.pool, key))
\* Variant: without `mac = mac.upper()`.
GetPersistentAsGiven(W) ==
    LET key == W.me.mac
        id == Len(W.links) + 1
    IN  IF key \notin PoolKeys(W.pool)
        THEN IF PoolFull(W.pool)
             THEN AfterGet([W EXCEPT !.me.gps = "full"], 0)
             ELSE ConnectIfNeeded(
                      [W EXCEPT !.links = Append(@, NewLink(key)),
                                !.pool = Append(@, [key |-> key, link |-> id]),
                                !.me.gps = "new"], id)
        ELSE ConnectIfNeeded([W EXCEPT !.me.gps = "found"], PoolLink(W.pool, key))
\* Variant: an address already in the pool gets a new entry in place of its
\* old one.
GetPersistentReplacing(W) ==
    LET key == Upper(W.me.mac)
        id == Len(W.links) + 1
    IN  IF key \notin PoolKeys(W.pool)
        THEN IF PoolFull(W.pool)
             THEN AfterGet([W EXCEPT !.me.gps = "full"], 0)
             ELSE ConnectIfNeeded(
                      [W EXCEPT !.links = Append(@, NewLink(key)),
                                !.pool = Append(@, [key |-> key, link |-> id]),
                                !.me.gps = "new"], id)
        ELSE ConnectIfNeeded(
                 [W EXCEPT !.links = Append(@, NewLink(key)),
                           !.pool = [k \in DOMAIN @ |->
                                        IF @[k].key = key
                                        THEN [key |-> key, link |-> id] ELSE @[k]],
                           !.me.gps = "found"], id)
\* get_persistent_session(mac, name)
GetPersistent(W) ==
    LET key == Upper(W.me.mac)
        id == Len(W.links) + 1
    IN  IF key \notin PoolKeys(W.pool)
        THEN IF PoolFull(W.pool)
             THEN AfterGet([W EXCEPT !.me.gps = "full"], 0)
             ELSE ConnectIfNeeded(
                      [W EXCEPT !.links = Append(@, NewLink(key)),
                                !.pool = Append(@, [key |-> key, link |-> id]),
                                !.me.gps = "new"], id)
        ELSE ConnectIfNeeded([W EXCEPT !.me.gps = "found"], PoolLink(W.pool, key))

\* Variant: the pool is asked whatever self.use_persistent says.
BeginAlwaysPooled(W) ==
    LET me == W.me
        mac == me.panels[me.i]
        me1 == [me EXCEPT !.mac = mac, !.link = 0, !.attempt = 0, !.session = "None",
                          !.pending = NoPending, !.outs = <<>>, !.nheld = 0, !.nfresh = 0,
                          !.events = <<>>, !.gps = "none", !.pooled = FALSE, !.sent = 0,
                          !.ndelay = 0, !.heldFail = FALSE, !.nsettle = 0,
                          !.preConn = FALSE, !.prevOk = FALSE]
    IN  GetPersistent([W EXCEPT !.prev = "", !.me = me1])
\* send_to_panel(mac, png_bytes, name, progress_callback) for target i of panels.
Begin(W) ==
    LET me == W.me
        mac == me.panels[me.i]
        key == Upper(mac)
        me1 == [me EXCEPT !.mac = mac, !.link = 0, !.attempt = 0, !.session = "None",
                          !.pending = NoPending, !.outs = <<>>, !.nheld = 0, !.nfresh = 0,
                          !.events = <<>>, !.gps = "none", !.pooled = FALSE, !.sent = 0,
                          !.ndelay = 0, !.heldFail = FALSE, !.nsettle = 0,
                          !.preConn = key \in PoolKeys(W.pool)
                                      /\ W.links[PoolLink(W.pool, key)].connected,
                          !.prevOk = (key = W.prev)]
        W1 == [W EXCEPT !.prev = "", !.me = me1]
    IN  IF me.use_persistent THEN GetPersistent(W1) ELSE EphLoop(W1, 1)

\* ----------------------------------------------------- close_all_sessions
RECURSIVE CloseLoop(_)

\* Variant: without `self.connected = False`.
DisconnectFinishKeepsFlag(W, id) ==
    CloseLoop(Release([W EXCEPT !.links[id].session = "None"], id))
\* PersistentSession.disconnect after the session is gone: the flag, the lock.
DisconnectFinish(W, id) ==
    CloseLoop(Release([W EXCEPT !.links[id].session = "None",
                                !.links[id].connected = FALSE], id))

\* Variant: without the `except Exception: pass`, the exception leaves
\* disconnect (the lock is released) and close_all_sessions.
AfterLinkDisconnectRaising(W, id, out) ==
    IF out.kind = "ok"
    THEN DisconnectFinish(W, id)
    ELSE Escape(Release(W, id), out.msg)
\* try: await self.session._safe_disconnect() / except Exception: pass
AfterLinkDisconnect(W, id, out) == DisconnectFinish(W, id)

\* PersistentSession.disconnect with the lock held.
DisconnectLocked(W, id) ==
    IF W.links[id].session # "None"
    THEN [W EXCEPT !.me = [W.me EXCEPT !.link = id, !.pc = "close_disconnect"]]
    ELSE DisconnectFinish(W, id)

\* PersistentSession.disconnect: async with self._lock
DisconnectEnter(W, id) ==
    IF W.links[id].lockq = <<>>
    THEN DisconnectLocked([W EXCEPT !.links[id].lockq = <<W.t>>], id)
    ELSE [W EXCEPT !.links[id].lockq = Append(@, W.t),
                   !.me = [W.me EXCEPT !.link = id, !.pc = "close_lock_wait"]]

\* Variant: without PERSISTENT_SESSIONS.clear().
CloseLoopNoClear(W) ==
    IF W.me.it_pos >= Len(W.pool)
    THEN [W EXCEPT !.prev = "closed", !.me = [W.me EXCEPT !.pc = "returned", !.link = 0]]
    ELSE DisconnectEnter([W EXCEPT !.me.it_pos = @ + 1], W.pool[W.me.it_pos + 1].link)
\* for session in PERSISTENT_SESSIONS.values(): ...; PERSISTENT_SESSIONS.clear()
\* The dict iterator raises RuntimeError when the dict's size has changed.
CloseLoop(W) ==
    IF Len(W.pool) # W.me.it_used
    THEN Escape(W, "RuntimeError")
    ELSE IF W.me.it_pos >= Len(W.pool)
    THEN [W EXCEPT !.pool = <<>>, !.prev = "closed",
                   !.me = [W.me EXCEPT !.pc = "returned", !.link = 0]]
    ELSE DisconnectEnter([W EXCEPT !.me.it_pos = @ + 1], W.pool[W.me.it_pos + 1].link)

\* ------------------------------------------------------------ the steps
\* A task's stretch of code has run.  A PersistentSession that is out of the
\* dict, holds no session and is referenced by no task is garbage.
Apply(t, W) ==
    LET tk1 == [tk EXCEPT ![t] = W.me]
        free == /\ W.pool = <<>>
                /\ \A u \in Tasks : tk1[u].link = 0
                /\ \A k \in DOMAIN W.links : W.links[k].session = "None"
    IN  /\ pool' = W.pool
        /\ links' = (IF free THEN <<>> ELSE W.links)
        /\ prev' = W.prev
        /\ tk' = tk1

Max(a, b) == IF a >= b THEN a ELSE b

\* The address lists a caller may pass, given that `u` panels are in use.
RECURSIVE Canon(_, _)
Canon(n, u) ==
    IF n = 0 THEN {<<>>}
    ELSE UNION {{<<a>> \o s : s \in Canon(n - 1, Max(u, AddrRank(a)))} :
                a \in {x \in Addrs : AddrRank(x) <= u + 1}}
TargetLists(u) == UNION {Canon(n, u) : n \in 0..MaxTargets}

RECURSIVE UsedAfter(_, _)
UsedAfter(u, panels) ==
    IF panels = <<>> THEN u ELSE UsedAfter(Max(u, AddrRank(Head(panels))), Tail(panels))

\* A call on the controller (self.retries, self.use_persistent) with its callback.
NewCall(op, panels, cb) ==
    [IdleTask EXCEPT !.op = op, !.pc = "start", !.use_persistent = ctl.use_persistent,
                     !.retries = ctl.retries, !.cb = cb, !.panels = panels, !.i = 1]

\* A task issues its calls one after the other.
CanCall(t) == t \in active /\ tk[t].pc = "idle" /\ calls < budget

\* await controller.send_to_panel(mac, png_bytes, name, progress_callback)
CallSendToPanel(t) ==
    /\ CanCall(t)
    /\ \E mac \in {x \in Addrs : AddrRank(x) <= used + 1}, cb \in cbs :
          /\ Apply(t, Begin([World(t) EXCEPT !.me = NewCall("send_to_panel", <<mac>>, cb)]))
          /\ used' = Max(used, AddrRank(mac))
    /\ calls' = calls + 1
    /\ UNCHANGED <<ctl, cbs, active, budget>>

\* send_to_multiple: results = []; the loop; return results
FanOut(t, op, panels, cb) ==
    LET me == NewCall(op, panels, cb)
    IN  /\ IF panels = <<>>
           THEN Apply(t, [World(t) EXCEPT !.me = [me EXCEPT !.pc = "returned"]])
           ELSE Apply(t, Begin([World(t) EXCEPT !.me = me]))
        /\ used' = UsedAfter(used, panels)

\* await controller.send_to_multiple(panels, progress_callback)
CallSendToMultiple(t) ==
    /\ CanCall(t)
    /\ \E panels \in TargetLists(used), cb \in cbs :
          FanOut(t, "send_to_multiple", panels, cb)
    /\ calls' = calls + 1
    /\ UNCHANGED <<ctl, cbs, active, budget>>

\* await controller.send_same_to_all(macs, png_bytes, progress_callback)
CallSendSameToAll(t) ==
    /\ CanCall(t)
    /\ \E macs \in TargetLists(used), cb \in cbs :
          FanOut(t, "send_same_to_all", SameToAllPanels(macs), cb)
    /\ calls' = calls + 1
    /\ UNCHANGED <<ctl, cbs, active, budget>>

\* await get_persistent_session(mac)
CallGetPersistent(t) ==
    /\ CanCall(t)
    /\ \E mac \in {x \in Addrs : AddrRank(x) <= used + 1} :
          /\ Apply(t, GetPersistent([World(t) EXCEPT !.prev = "", !.me =
                 [IdleTask EXCEPT !.op = "get_persistent_session", !.mac = mac,
                                  !.preConn = Upper(mac) \in PoolKeys(pool)
                                      /\ links[PoolLink(pool, Upper(mac))].connected]]))
          /\ used' = Max(used, AddrRank(mac))
    /\ calls' = calls + 1
    /\ UNCHANGED <<ctl, cbs, active, budget>>

\* await close_all_sessions()
CallCloseAll(t) ==
    /\ CanCall(t)
    /\ Apply(t, CloseLoop([World(t) EXCEPT !.prev = "", !.me =
           [IdleTask EXCEPT !.op = "close_all_sessions", !.it_used = Len(pool),
                            !.prevOk = (prev = "closed")]]))
    /\ calls' = calls + 1
    /\ UNCHANGED <<used, ctl, cbs, active, budget>>

\* PersistentSession.connect: wait_for(self.session._connect()) has ended;
\* a timeout and an exception both reach `except Exception`.
HeldConnectDone(t) ==
    /\ tk[t].pc = "held_connect"
    /\ \E out \in PlainOutcomes(ConnectErr) :
          LET id == tk[t].link
          IN  Apply(t, AfterConnect(Release(ConnectEnded(World(t), id, out), id), id))
    /\ UNCHANGED <<calls, used, ctl, cbs, active, budget>>

\* PersistentSession.send_frame: self.session.send_png(...) has ended.
HeldSendDone(t) ==
    /\ tk[t].pc = "held_send"
    /\ \E out \in PlainOutcomes(SendErr) :
          LET id == tk[t].link
              W == World(t)
              me1 == Emit(W.me, "success", "", TRUE)
          IN  IF out.kind = "ok"
              THEN IF CbRaises(W.me, "success")
                   THEN Apply(t, Escape([W EXCEPT !.me = [me1 EXCEPT !.sent = @ + 1]], CbText))
                   ELSE Apply(t, Finish([W EXCEPT !.me = [me1 EXCEPT !.pooled = TRUE,
                                                                    !.sent = @ + 1]],
                                        TRUE, "OK"))
              ELSE Apply(t, EphLoop([SendFrameFailed(W, id) EXCEPT !.me.link = 0], 1))
    /\ UNCHANGED <<calls, used, ctl, cbs, active, budget>>

\* send_with_session: session._connect() has ended, or the deadline has passed.
EphConnectDone(t) ==
    /\ tk[t].pc = "eph_connect"
    /\ \E out \in TimedOutcomes(ConnectErr) :
          LET W == World(t)
              me1 == Emit([W.me EXCEPT !.session = "open"], "sending", "", FALSE)
          IN  IF out.kind = "ok"
              THEN IF CbRaises(W.me, "sending")
                   THEN Apply(t, OnResult([W EXCEPT !.me = me1], ErrOut(CbText)))
                   ELSE Apply(t, [W EXCEPT !.me = [me1 EXCEPT !.pc = "eph_send"]])
              ELSE Apply(t, OnResult(W, out))
    /\ UNCHANGED <<calls, used, ctl, cbs, active, budget>>

\* send_with_session: session.send_png(...) has ended, or the deadline has passed.
EphSendDone(t) ==
    /\ tk[t].pc = "eph_send"
    /\ \E out \in TimedOutcomes(SendErr) :
          LET W == World(t)
          IN  IF out.kind = "ok"
              THEN Apply(t, [W EXCEPT !.me = [W.me EXCEPT !.sent = @ + 1,
                                                          !.pc = "eph_settle"]])
              ELSE Apply(t, OnResult(W, out))
    /\ UNCHANGED <<calls, used, ctl, cbs, active, budget>>

\* send_with_session: asyncio.sleep(0.5) has ended, or the deadline has passed.
EphSettleDone(t) ==
    /\ tk[t].pc = "eph_settle"
    /\ \E out \in {OkOut, TimeoutOut} :
          Apply(t, OnResult([World(t) EXCEPT !.me.nsettle =
                                 IF out.kind = "ok" THEN @ + 1 ELSE @], out))
    /\ UNCHANGED <<calls, used, ctl, cbs, active, budget>>

\* finally: session._safe_disconnect() has ended; what it raises is passed over.
EphDisconnectDone(t) ==
    /\ tk[t].pc = "eph_disconnect"
    /\ \E out \in PlainOutcomes(DisconnectErr) :
          Apply(t, AfterSafeDisconnect(World(t), out))
    /\ UNCHANGED <<calls, used, ctl, cbs, active, budget>>

\* finally: asyncio.sleep(self.panel_delay) has ended.
EphDelayDone(t) ==
    /\ tk[t].pc = "eph_delay"
    /\ LET W == [World(t) EXCEPT !.me.ndelay = @ + 1]
           p == tk[t].pending
       IN  CASE p.kind = "return" -> Apply(t, Finish(W, p.ok, p.msg))
             [] p.kind = "raise" -> Apply(t, Escape(W, p.msg))
             [] OTHER -> Apply(t, EphLoop(W, tk[t].attempt + 1))
    /\ UNCHANGED <<calls, used, ctl, cbs, active, budget>>

\* PersistentSession.disconnect: session._safe_disconnect() has ended.
CloseDisconnectDone(t) ==
    /\ tk[t].pc = "close_disconnect"
    /\ \E out \in PlainOutcomes(DisconnectErr) :
          Apply(t, AfterLinkDisconnect([World(t) EXCEPT !.me.outs = Append(@, out)],
                                       tk[t].link, out))
    /\ UNCHANGED <<calls, used, ctl, cbs, active, budget>>

\* The lock of PersistentSession.connect has come to the waiting task.
ConnectLockAcquired(t) ==
    /\ tk[t].pc = "lock_wait"
    /\ Head(links[tk[t].link].lockq) = t
    /\ Apply(t, ConnectLocked(World(t), tk[t].link))
    /\ UNCHANGED <<calls, used, ctl, cbs, active, budget>>

\* The lock of PersistentSession.disconnect has come to the waiting task.
CloseLockAcquired(t) ==
    /\ tk[t].pc = "close_lock_wait"
    /\ Head(links[tk[t].link].lockq) = t
    /\ Apply(t, DisconnectLocked(World(t), tk[t].link))
    /\ UNCHANGED <<calls, used, ctl, cbs, active, budget>>

\* The caller has taken the result (or the exception) of its call.
Reset(t) ==
    /\ tk[t].pc \in {"returned", "raised"}
    /\ Apply(t, [World(t) EXCEPT !.me = IdleTask])
    /\ UNCHANGED <<calls, used, ctl, cbs, active, budget>>

\* --------------------------------------------------------- specifications
InitShared ==
    /\ pool = <<>>
    /\ links = <<>>
    /\ tk = [t \in Tasks |-> IdleTask]
    /\ calls = 0
    /\ used = 0
    /\ prev = ""

\* One flow of control, no progress callback (the command-line tools): single
\* sends, get_persistent_session and close_all_sessions.
Init ==
    /\ InitShared
    /\ ctl \in [use_persistent : BOOLEAN, retries : 0..MaxRetries]
    /\ cbs = {NoCallback}
    /\ active = {1}
    /\ budget = MaxCalls

\* One flow of control, no progress callback: fan-out calls.
InitFan ==
    /\ InitShared
    /\ ctl \in [use_persistent : BOOLEAN, retries : 0..FanRetries]
    /\ cbs = {NoCallback}
    /\ active = {1}
    /\ budget = FanCalls

\* One flow of control; every call passes a progress callback, which may raise.
InitCb ==
    /\ InitShared
    /\ ctl \in [use_persistent : BOOLEAN, retries : 0..CbRetries]
    /\ cbs = {OkCallback} \cup RaisingCallbacks
    /\ active = {1}
    /\ budget = CbCalls

\* Two tasks on one event loop (the web server's handlers), no callback.
InitConc ==
    /\ InitShared
    /\ ctl \in [use_persistent : BOOLEAN, retries : 0..ConcRetries]
    /\ cbs = {NoCallback}
    /\ active = Tasks
    /\ budget = ConcCalls

\* The steps of a call that is under way.
Step(t) ==
    \/ HeldConnectDone(t)
    \/ HeldSendDone(t)
    \/ EphConnectDone(t)
    \/ EphSendDone(t)
    \/ EphSettleDone(t)
    \/ EphDisconnectDone(t)
    \/ EphDelayDone(t)
    \/ Reset(t)

Next ==
    \E t \in Tasks :
        \/ CallSendToPanel(t)
        \/ CallGetPersistent(t)
        \/ CallCloseAll(t)
        \/ CloseDisconnectDone(t)
        \/ Step(t)

NextFan ==
    \E t \in Tasks :
        \/ CallSendToMultiple(t)
        \/ CallSendSameToAll(t)
        \/ Step(t)

NextConc ==
    \/ Next
    \/ \E t \in Tasks : ConnectLockAcquired(t) \/ CloseLockAcquired(t)

Spec == Init /\ [][Next]_vars
SpecCb == InitCb /\ [][Next]_vars
SpecConc == InitConc /\ [][NextConc]_vars
SpecFan == InitFan /\ [][NextFan]_vars

\* What the code's deadlines guarantee: an operation awaited under
\* asyncio.wait_for ends, with its result or at the deadline, and a sleep ends.
\* send_frame's send_png and the two _safe_disconnect calls are awaited without
\* a deadline and need never end.
Deadlines ==
    \A t \in Tasks :
        /\ WF_vars(HeldConnectDone(t))
        /\ WF_vars(EphConnectDone(t))
        /\ WF_vars(EphSendDone(t))
        /\ WF_vars(EphSettleDone(t))
        /\ WF_vars(EphDelayDone(t))
SpecLive == Init /\ [][Next]_vars /\ Deadlines

\* ------------------------------------------------------------ properties
FanOps == {"send_to_multiple", "send_same_to_all"}
EphPcs == {"eph_connect", "eph_send", "eph_settle", "eph_disconnect", "eph_delay"}
Busy(me) == me.pc \notin {"idle", "returned", "raised"}
Failed(out) == out.kind # "ok"

\* C1: a fan-out over N targets returns exactly N results, and result i carries
\* the address of target i as the caller gave it; while the call runs, the
\* results so far are those of the targets before the current one.
C1_OneResultPerTargetInOrder ==
    \A t \in Tasks :
        tk[t].op \in FanOps =>
            /\ \A k \in 1..Len(tk[t].results) :
                   k <= Len(tk[t].panels) /\ tk[t].results[k].mac = tk[t].panels[k]
            /\ tk[t].pc = "returned" => Len(tk[t].results) = Len(tk[t].panels)
            /\ Busy(tk[t]) => Len(tk[t].results) = tk[t].i - 1

\* C1 witness: a fan-out over the same panel given twice, once in lower case,
\* has returned one failure and one success, each under the address as given.
C1_Witness ==
    \E t \in Tasks :
        /\ tk[t].op = "send_same_to_all" /\ tk[t].pc = "returned"
        /\ tk[t].panels = <<"aa", "AA">>
        /\ Len(tk[t].results) = 2
        /\ tk[t].results[1].mac = "aa" /\ ~tk[t].results[1].success
        /\ tk[t].results[2].mac = "AA" /\ tk[t].results[2].success

\* C2: a failed outcome for target k does not stop send_to_multiple: as long as
\* targets remain, the call is at work on a later target, and when it has
\* returned every target has its outcome.
C2_FailureDoesNotStopFanOut ==
    \A t \in Tasks :
        tk[t].op \in FanOps =>
            \A k \in 1..Len(tk[t].results) :
                (~tk[t].results[k].success /\ k < Len(tk[t].panels)) =>
                    /\ tk[t].pc # "raised"
                    /\ tk[t].pc = "returned" => Len(tk[t].results) = Len(tk[t].panels)
                    /\ Busy(tk[t]) => tk[t].i > k /\ tk[t].mac = tk[t].panels[tk[t].i]

\* C2 witness: the first of two targets failed and the second succeeded.
C2_Witness ==
    \E t \in Tasks :
        /\ tk[t].op = "send_to_multiple" /\ tk[t].pc = "returned"
        /\ Len(tk[t].panels) = 2 /\ Len(tk[t].results) = 2
        /\ tk[t].panels[1] # tk[t].panels[2]
        /\ ~tk[t].results[1].success /\ tk[t].results[1].message = TimeoutMessage
        /\ tk[t].results[2].success

\* C3: send_to_panel lets no exception escape and returns one pair, whose
\* success is true exactly when the send over the held link or the last
\* ephemeral attempt succeeded; before it returns there is no pair.
C3_OnePairNoException ==
    \A t \in Tasks :
        tk[t].op = "send_to_panel" =>
            /\ tk[t].pc # "raised"
            /\ tk[t].pc # "returned" => tk[t].ret = NoRet
            /\ tk[t].pc = "returned" =>
                   /\ tk[t].ret # NoRet
                   /\ tk[t].ret.ok <=>
                          \/ tk[t].pooled
                          \/ tk[t].outs # <<>> /\ ~Failed(tk[t].outs[Len(tk[t].outs)])

\* C3 witness: without pooling, an attempt that failed and an attempt that
\* timed out, each followed by its disconnect, ended in a failure pair.
C3_Witness ==
    \E t \in Tasks :
        /\ tk[t].op = "send_to_panel" /\ tk[t].pc = "returned"
        /\ ~tk[t].use_persistent /\ tk[t].session = "closed"
        /\ tk[t].outs = <<ErrOut(SendErr), TimeoutOut>>
        /\ tk[t].ret = [ok |-> FALSE, msg |-> TimeoutMessage]

\* C4 (as claimed): with a progress callback that raises, send_to_panel lets no
\* exception escape and its result is that of the session operations alone.
C4_RaisingCallbackHarmless ==
    \A t \in Tasks :
        (tk[t].op = "send_to_panel" /\ tk[t].cb.present) =>
            /\ tk[t].pc # "raised"
            /\ tk[t].pc = "returned" =>
                   (tk[t].ret.ok <=>
                        \/ tk[t].pooled
                        \/ tk[t].outs # <<>> /\ ~Failed(tk[t].outs[Len(tk[t].outs)]))

\* C5 (as claimed): when the delay that ends an ephemeral attempt is reached,
\* the attempt's fresh session has had its disconnect invoked.
C5_FreshSessionDisconnected ==
    \A t \in Tasks :
        tk[t].pc = "eph_delay" => tk[t].session \in {"None", "closed"}

\* C6: with retries >= 1, the ephemeral attempts of a call are numbered 1, 2, ...
\* up to retries, one fresh session each; an attempt starts only after failed
\* ones; the call returns after the first success or after attempt retries.
C6_AttemptsUpToFirstSuccess ==
    \A t \in Tasks :
        (tk[t].op = "send_to_panel" /\ tk[t].retries >= 1) =>
            /\ tk[t].pc \in EphPcs =>
                   /\ tk[t].attempt \in 1..tk[t].retries
                   /\ tk[t].nfresh = tk[t].attempt
                   /\ \A k \in 1..(tk[t].attempt - 1) :
                          k <= Len(tk[t].outs) /\ Failed(tk[t].outs[k])
            /\ (tk[t].pc = "returned" /\ ~tk[t].pooled) =>
                   /\ tk[t].nfresh = Len(tk[t].outs)
                   /\ tk[t].nfresh \in 1..tk[t].retries
                   /\ \A k \in 1..(tk[t].nfresh - 1) : Failed(tk[t].outs[k])
                   /\ Failed(tk[t].outs[tk[t].nfresh]) => tk[t].nfresh = tk[t].retries

\* C6 witness: the pooled path gave no success, attempt 1 failed and attempt 2
\* of 2 succeeded.
C6_Witness ==
    \E t \in Tasks :
        /\ tk[t].op = "send_to_panel" /\ tk[t].pc = "returned"
        /\ tk[t].retries = 2 /\ tk[t].gps = "new" /\ ~tk[t].pooled
        /\ tk[t].nfresh = 2
        /\ tk[t].outs = <<ErrOut(ConnectErr), OkOut>>

\* What send_to_panel is to return after an attempt that ended as `out`.
ResultOf(out) ==
    CASE out.kind = "ok" -> [ok |-> TRUE, msg |-> "OK"]
      [] out.kind = "timeout" -> [ok |-> FALSE, msg |-> "Connection timeout"]
      [] OTHER -> [ok |-> FALSE, msg |-> out.msg]

\* C7: with retries >= 1, a call that made ephemeral attempts returns the pair
\* of its last attempt: (false, "Connection timeout") after a timeout, (false,
\* the failure's text) after another failure, (true, "OK") after a success.
C7_ResultOfLastAttempt ==
    \A t \in Tasks :
        (tk[t].op = "send_to_panel" /\ tk[t].pc = "returned" /\ tk[t].outs # <<>>) =>
            tk[t].ret = ResultOf(tk[t].outs[Len(tk[t].outs)])

\* C7 witness: attempt 1 timed out, attempt 2 failed in send_png, and the call
\* returned the text of the second failure.
C7_Witness ==
    \E t \in Tasks :
        /\ tk[t].op = "send_to_panel" /\ tk[t].pc = "returned"
        /\ tk[t].outs = <<TimeoutOut, ErrOut(SendErr)>>
        /\ tk[t].ret = [ok |-> FALSE, msg |-> SendErr]

\* C8: the pool never holds more than three entries.
C8_PoolWithinCapacity == Len(pool) <= 3

\* C8 witness: with three entries in the pool, one task has been refused a
\* link for a fourth address while the other task is in a call of its own.
C8_Witness ==
    /\ Len(pool) = 3
    /\ \E t, u \in Tasks :
           /\ t # u
           /\ tk[t].gps = "full" /\ Upper(tk[t].mac) \notin PoolKeys(pool)
           /\ Busy(tk[u])

\* C9: a call for an address that is not in a full pool leaves the pool and
\* every held link as they are, get_persistent_session returns None, and the
\* send_to_panel call goes on with fresh sessions only.
C9_RefusalLeavesPoolAlone ==
    /\ [](\A t \in Tasks :
              tk[t].gps = "full" =>
                  /\ tk[t].nheld = 0 /\ ~tk[t].pooled /\ tk[t].link = 0
                  /\ tk[t].pc \notin {"lock_wait", "held_connect", "held_send"})
    /\ [][\A t \in Tasks :
              ( /\ tk[t].pc = "idle" /\ tk'[t].pc # "idle"
                /\ tk'[t].op \in {"send_to_panel", "get_persistent_session"}
                /\ tk'[t].op = "send_to_panel" => tk'[t].use_persistent
                /\ Len(pool) = 3
                /\ Upper(tk'[t].mac) \notin PoolKeys(pool) ) =>
              ( /\ pool' = pool /\ links' = links
                /\ tk'[t].gps = "full" /\ tk'[t].link = 0
                /\ tk'[t].op = "get_persistent_session" => tk'[t].pc = "returned"
                /\ (tk'[t].op = "send_to_panel" /\ tk'[t].retries >= 1) =>
                       tk'[t].pc = "eph_connect" /\ tk'[t].nfresh = 1 )]_vars

\* C9 witness: with three connected links held, a send to a fourth address
\* has succeeded over a fresh session.
C9_Witness ==
    \E t \in Tasks :
        /\ tk[t].op = "send_to_panel" /\ tk[t].pc = "returned"
        /\ tk[t].gps = "full" /\ tk[t].ret.ok /\ tk[t].nfresh >= 1
        /\ Len(pool) = 3
        /\ Upper(tk[t].mac) \notin PoolKeys(pool)
        /\ \A k \in DOMAIN pool : links[pool[k].link].connected

\* C10 (as claimed): with pooling, the call after a successful send to the
\* same address whose send over the held link succeeds has invoked no connect
\* and opened no fresh session.
C10_NoConnectAfterSuccess ==
    \A t \in Tasks :
        ( /\ tk[t].op = "send_to_panel" /\ tk[t].use_persistent
          /\ tk[t].prevOk /\ tk[t].pc = "returned" /\ tk[t].pooled ) =>
            tk[t].nheld = 0 /\ tk[t].nfresh = 0

\* C10 (amended): with pooling, a call that finds the pool entry of its address
\* connected invokes no connect on the held link, and when its send over the
\* held link succeeds it has invoked no connect and opened no fresh session.
C10_ConnectedEntryNoConnect ==
    \A t \in Tasks :
        ( /\ tk[t].op = "send_to_panel" /\ tk[t].use_persistent /\ tk[t].preConn ) =>
            /\ tk[t].nheld = 0
            /\ tk[t].pc \notin {"lock_wait", "held_connect"}
            /\ (tk[t].pc = "returned" /\ tk[t].pooled) => tk[t].nfresh = 0

\* C10 witness: the send before this one succeeded, the entry was found
\* connected, and the send over the held link succeeded without any connect.
C10_Witness ==
    \E t \in Tasks :
        /\ tk[t].op = "send_to_panel" /\ tk[t].pc = "returned"
        /\ tk[t].prevOk /\ tk[t].preConn /\ tk[t].gps = "found"
        /\ tk[t].pooled /\ tk[t].ret.ok
        /\ tk[t].nheld = 0 /\ tk[t].nfresh = 0

\* C11: a send_to_panel call with use_persistent = false never asks the pool:
\* it holds no link and connects none, none of its steps changes the pool or a
\* held link, and each of its attempts has opened a fresh session.
C11_UnpooledSendLeavesPoolAlone ==
    /\ [](\A t \in Tasks :
              (tk[t].op = "send_to_panel" /\ ~tk[t].use_persistent) =>
                  /\ tk[t].gps = "none" /\ tk[t].link = 0 /\ tk[t].nheld = 0
                  /\ ~tk[t].pooled
                  /\ tk[t].pc \notin {"lock_wait", "held_connect", "held_send"}
                  /\ tk[t].pc \in EphPcs => tk[t].nfresh = tk[t].attempt
                  /\ tk[t].pc = "returned" => tk[t].nfresh = Len(tk[t].outs))
    /\ [][\A t \in Tasks :
              ( /\ tk'[t] # tk[t]
                /\ tk'[t].op = "send_to_panel" /\ ~tk'[t].use_persistent ) =>
                  pool' = pool /\ links' = links]_vars

\* C11 witness: while the pool holds a connected link for the address, a send
\* without pooling has returned after two attempts on fresh sessions.
C11_Witness ==
    \E t \in Tasks :
        /\ tk[t].op = "send_to_panel" /\ ~tk[t].use_persistent
        /\ tk[t].pc = "returned" /\ tk[t].nfresh = 2 /\ tk[t].ret.ok
        /\ Upper(tk[t].mac) \in PoolKeys(pool)
        /\ links[PoolLink(pool, Upper(tk[t].mac))].connected

\* C12 (as claimed): of two send_to_panel calls under way, one is never in
\* send_frame on a held link while the other is in send_frame or in connect on
\* that same link.
C12_HeldLinkOperationsNeverOverlap ==
    \A t, u \in Tasks :
        ( /\ t # u
          /\ tk[t].op = "send_to_panel" /\ tk[u].op = "send_to_panel"
          /\ tk[t].pc = "held_send" /\ tk[u].link = tk[t].link ) =>
            tk[u].pc \notin {"held_send", "held_connect"}

\* C13 (as claimed): close_all_sessions is never in the disconnect of a link's
\* session while a send_to_panel call is in send_frame on that link.
C13_DisconnectWaitsForSend ==
    \A t, u \in Tasks :
        ( /\ tk[t].op = "send_to_panel" /\ tk[t].pc = "held_send"
          /\ tk[u].op = "close_all_sessions" /\ tk[u].link = tk[t].link ) =>
            tk[u].pc # "close_disconnect"

\* A held link that has been disconnected.
Cleared(l) == l.session = "None" /\ ~l.connected

\* C14: close_all_sessions does not raise; when it returns it has invoked
\* disconnect, and with it the session's _safe_disconnect, on every link the
\* pool held, the pool is empty and no link is left with a session or marked
\* connected; and at its last step every other link of the pool is already
\* disconnected, whatever the earlier disconnects' outcomes.
C14_CloseAllDisconnectsEveryLink ==
    /\ [](\A t \in Tasks :
              tk[t].op = "close_all_sessions" =>
                  /\ tk[t].pc # "raised"
                  /\ tk[t].pc = "returned" =>
                         /\ pool = <<>>
                         /\ tk[t].it_pos = tk[t].it_used
                         /\ Len(tk[t].outs) = tk[t].it_used
                         /\ \A k \in DOMAIN links : Cleared(links[k]))
    /\ [][\A t \in Tasks :
              ( /\ tk'[t].op = "close_all_sessions"
                /\ tk'[t].pc = "returned" /\ tk[t].pc # "returned" ) =>
                  /\ \A k \in DOMAIN pool :
                         pool[k].link # tk[t].link => Cleared(links[pool[k].link])
                  /\ \A k \in DOMAIN links' : Cleared(links'[k])]_vars

\* C14 witness: close_all_sessions has returned from a pool of two links, the
\* first of which failed to disconnect.
C14_Witness ==
    \E t \in Tasks :
        /\ tk[t].op = "close_all_sessions" /\ tk[t].pc = "returned"
        /\ tk[t].it_used = 2
        /\ tk[t].outs = <<ErrOut(DisconnectErr), OkOut>>
        /\ pool = <<>>

\* C15: close_all_sessions does not raise, and a call that comes right after a
\* close_all_sessions that returned finds the pool empty, invokes no
\* disconnect, returns, and leaves the pool and the links as they were.
C15_SecondCloseAllIsNoOp ==
    /\ [](\A t \in Tasks :
              tk[t].op = "close_all_sessions" =>
                  /\ tk[t].pc # "raised"
                  /\ tk[t].prevOk =>
                         /\ tk[t].pc = "returned"
                         /\ tk[t].it_used = 0 /\ tk[t].it_pos = 0 /\ tk[t].outs = <<>>
                         /\ pool = <<>>)
    /\ [][\A t \in Tasks :
              ( /\ tk[t].pc = "idle"
                /\ tk'[t].op = "close_all_sessions" /\ tk'[t].prevOk ) =>
                  pool' = pool /\ links' = links]_vars

\* C15 witness: a call that filled a pool entry, a close_all_sessions, and a
\* second close_all_sessions right after it, which has returned.
C15_Witness ==
    \E t \in Tasks :
        /\ tk[t].op = "close_all_sessions" /\ tk[t].pc = "returned" /\ tk[t].prevOk
        /\ ctl.use_persistent /\ used = 1 /\ calls = 3

\* C16 (as claimed): a send_to_panel call with retries >= 1 that has returned
\* has waited asyncio.sleep(self.panel_delay) at least once.
C16_EverySendWaitsPanelDelay ==
    \A t \in Tasks :
        ( /\ tk[t].op = "send_to_panel" /\ tk[t].retries >= 1
          /\ tk[t].pc = "returned" ) =>
            tk[t].ndelay >= 1

\* C17 (as claimed): every send_to_panel call that is under way returns.
C17_EverySendReturns ==
    \A t \in Tasks :
        (tk[t].op = "send_to_panel" /\ Busy(tk[t])) ~> (tk[t].pc = "returned")

\* C18 (as claimed): send_to_panel returns success = true exactly when a
\* send_png of the payload has completed during the call.
C18_SuccessIffPayloadAccepted ==
    \A t \in Tasks :
        (tk[t].op = "send_to_panel" /\ tk[t].pc = "returned") =>
            (tk[t].ret.ok <=> tk[t].sent >= 1)

\* C19: a fan-out call works on one target at a time: while it is under way
\* the outcomes of all targets before the current one are recorded, the
\* address and the held link in use are the current target's, and when the
\* call moves on, the outcome of the target it leaves is in the results, which
\* only grow.
C19_OneTargetAtATime ==
    /\ [](\A t \in Tasks :
              (tk[t].op \in FanOps /\ Busy(tk[t])) =>
                  /\ tk[t].i \in 1..Len(tk[t].panels)
                  /\ Len(tk[t].results) = tk[t].i - 1
                  /\ tk[t].mac = tk[t].panels[tk[t].i]
                  /\ tk[t].link # 0 => links[tk[t].link].mac = Upper(tk[t].panels[tk[t].i]))
    /\ [][\A t \in Tasks :
              (tk[t].op \in FanOps /\ Busy(tk[t])) =>
                  /\ tk'[t].i >= tk[t].i
                  /\ Len(tk'[t].results) >= Len(tk[t].results)
                  /\ SubSeq(tk'[t].results, 1, Len(tk[t].results)) = tk[t].results
                  /\ (tk'[t].i > tk[t].i \/ ~Busy(tk'[t])) =>
                         /\ Len(tk'[t].results) >= tk[t].i
                         /\ tk'[t].results[tk[t].i].mac = tk[t].mac]_vars

\* C19 witness: a fan-out is sending to its second target with the failure of
\* the first one recorded.
C19_Witness ==
    \E t \in Tasks :
        /\ tk[t].op \in FanOps /\ tk[t].pc = "eph_send"
        /\ tk[t].i = 2 /\ Len(tk[t].results) = 1
        /\ ~tk[t].results[1].success

\* C20 (as claimed): when get_persistent_session has created the link for an
\* address and returned None because the connect failed, the pool has no
\* entry for that address.
C20_FailedConnectLeavesNoEntry ==
    \A t \in Tasks :
        ( /\ tk[t].op = "get_persistent_session" /\ tk[t].pc = "returned"
          /\ tk[t].gps = "new" /\ tk[t].link = 0 ) =>
            Upper(tk[t].mac) \notin PoolKeys(pool)

\* The pool's entry for the address of a call is there and marked disconnected.
EntryDisconnected(p, ls, mac) ==
    /\ Upper(mac) \in PoolKeys(p)
    /\ ~ls[PoolLink(p, Upper(mac))].connected

\* C21: once the send over the held link has failed in a send_to_panel call,
\* the call makes its attempts on fresh sessions while the link's entry stays
\* in the pool marked disconnected; and a call of get_persistent_session (by
\* itself or from send_to_panel) for an address whose entry is marked
\* disconnected starts one connect on that entry.
C21_FailedHeldSendMarksDisconnected ==
    /\ [](\A t \in Tasks :
              (tk[t].op = "send_to_panel" /\ tk[t].heldFail) =>
                  /\ EntryDisconnected(pool, links, tk[t].mac)
                  /\ tk[t].link = 0 /\ ~tk[t].pooled
                  /\ tk[t].retries >= 1 => tk[t].nfresh >= 1)
    /\ [][\A t \in Tasks :
              ( /\ tk[t].pc = "idle" /\ tk'[t].pc # "idle"
                /\ \/ tk'[t].op = "get_persistent_session"
                   \/ tk'[t].op = "send_to_panel" /\ tk'[t].use_persistent
                /\ EntryDisconnected(pool, links, tk'[t].mac) ) =>
                  /\ tk'[t].pc = "held_connect" /\ tk'[t].nheld = 1
                  /\ tk'[t].link = PoolLink(pool, Upper(tk'[t].mac))
                  /\ pool' = pool]_vars

\* C21 witness: the held link was found connected, the send over it failed, and
\* the first attempt on a fresh session is under way.
C21_Witness ==
    \E t \in Tasks :
        /\ tk[t].op = "send_to_panel" /\ tk[t].heldFail /\ tk[t].preConn
        /\ tk[t].pc = "eph_connect" /\ tk[t].attempt = 1
        /\ EntryDisconnected(pool, links, tk[t].mac)

\* C22 (as claimed): when send_to_panel opens a fresh session, no other session
\* to that address is open: after a failed send over the held link, the link
\* no longer has its session, and the fresh session of the attempt before, if
\* it had connected, has been disconnected.
C22_OneSessionPerAddress ==
    [][\A t \in Tasks :
          ( /\ tk'[t].op = "send_to_panel" /\ tk'[t].pc = "eph_connect"
            /\ tk[t].pc # "eph_connect" ) =>
              /\ tk[t].pc = "held_send" => links'[tk[t].link].session = "None"
              /\ tk[t].pc = "eph_delay" => tk[t].session # "open"]_vars

\* C23: get_persistent_session for an address whose entry is marked
\* disconnected invokes connect once, on that entry; it returns the entry when
\* the entry is then connected and None when it is not; the entry stays, and
\* no step of the call changes the pool.
C23_ReconnectInPlace ==
    /\ [](\A t \in Tasks :
              ( /\ tk[t].op = "get_persistent_session"
                /\ tk[t].gps = "found" /\ ~tk[t].preConn ) =>
                  /\ tk[t].nheld = 1
                  /\ Upper(tk[t].mac) \in PoolKeys(pool)
                  /\ tk[t].pc \in {"held_connect", "returned"}
                  /\ tk[t].pc = "held_connect" =>
                         tk[t].link = PoolLink(pool, Upper(tk[t].mac))
                  /\ tk[t].pc = "returned" =>
                         tk[t].link = IF links[PoolLink(pool, Upper(tk[t].mac))].connected
                                      THEN PoolLink(pool, Upper(tk[t].mac)) ELSE 0)
    /\ [][\A t \in Tasks :
              ( /\ tk'[t] # tk[t]
                /\ tk'[t].op = "get_persistent_session"
                /\ tk'[t].gps = "found" /\ ~tk'[t].preConn ) =>
                  pool' = pool]_vars

\* C23 witness: the reconnect of an entry has failed, the call has returned
\* None and the entry is in the pool, marked disconnected.
C23_Witness ==
    \E t \in Tasks :
        /\ tk[t].op = "get_persistent_session" /\ tk[t].pc = "returned"
        /\ tk[t].gps = "found" /\ ~tk[t].preConn /\ tk[t].nheld = 1
        /\ tk[t].link = 0
        /\ EntryDisconnected(pool, links, tk[t].mac)

\* C24: get_persistent_session for an address whose entry is marked connected
\* returns that entry at once, without invoking connect, and leaves the pool
\* and every held link as they were.
C24_ConnectedEntryReturned ==
    /\ [](\A t \in Tasks :
              (tk[t].op = "get_persistent_session" /\ tk[t].preConn) =>
                  /\ tk[t].pc = "returned" /\ tk[t].gps = "found"
                  /\ tk[t].nheld = 0
                  /\ tk[t].link = PoolLink(pool, Upper(tk[t].mac))
                  /\ links[tk[t].link].connected)
    /\ [][\A t \in Tasks :
              ( /\ tk'[t] # tk[t]
                /\ tk'[t].op = "get_persistent_session" /\ tk'[t].preConn ) =>
                  pool' = pool /\ links' = links]_vars

\* C24 witness: a call has found the entry of its address connected and
\* has returned it.
C24_Witness ==
    \E t \in Tasks :
        /\ tk[t].op = "get_persistent_session" /\ tk[t].pc = "returned"
        /\ tk[t].preConn /\ tk[t].gps = "found" /\ tk[t].nheld = 0
        /\ tk[t].link # 0 /\ tk[t].link = PoolLink(pool, Upper(tk[t].mac))
        /\ links[tk[t].link].connected

\* A held link with a live session: it has a session and is marked connected.
Live(l) == l.session # "None" /\ l.connected

\* C25 (as claimed): at any time every held link with a live session is the
\* pool's entry for its address, and no two such links have the same address.
C25_LiveLinksAreThePoolEntries ==
    /\ \A k \in DOMAIN links :
           Live(links[k]) =>
               /\ links[k].mac \in PoolKeys(pool)
               /\ PoolLink(pool, links[k].mac) = k
    /\ \A j, k \in DOMAIN links :
           (Live(links[j]) /\ Live(links[k]) /\ links[j].mac = links[k].mac) => j = k

\* C26 (as claimed): close_all_sessions completes without raising, also when
\* get_persistent_session inserts an entry while it is in progress, and when
\* it has returned no link is left with a session that was not disconnected.
C26_CloseAllNeverRaises ==
    \A t \in Tasks :
        tk[t].op = "close_all_sessions" =>
            /\ tk[t].pc # "raised"
            /\ (tk[t].pc = "returned" /\ pool = <<>> /\ \A u \in Tasks : tk[u].link = 0) =>
                   \A k \in DOMAIN links : links[k].session = "None"

\* C27 (as claimed): a send_to_panel call that reports success has waited the
\* settle delay after its successful send, over a held link as over a fresh
\* session.
C27_SettleDelayAfterEverySend ==
    \A t \in Tasks :
        ( /\ tk[t].op = "send_to_panel" /\ tk[t].pc = "returned"
          /\ tk[t].ret.ok ) =>
            tk[t].nsettle >= 1

\* C29 (as claimed): within one send_to_panel call the payload is transmitted
\* completely at most once.
C29_PayloadSentAtMostOnce ==
    \A t \in Tasks :
        tk[t].op = "send_to_panel" => tk[t].sent <= 1

\* The deadline of the attempt that task t is in has expired.
TimedOut(t) ==
    /\ tk[t].op = "send_to_panel" /\ tk[t].attempt >= 1
    /\ Len(tk[t].outs) = tk[t].attempt
    /\ tk[t].outs[tk[t].attempt].kind = "timeout"

\* C28: once the deadline of an ephemeral attempt has expired, the attempt is
\* in no connect, send or settle wait any more, and for as long as the call
\* stays in that attempt no payload is sent, no session is opened and no
\* progress event is emitted.
C28_TimedOutAttemptAbandoned ==
    /\ [](\A t \in Tasks :
              TimedOut(t) => tk[t].pc \notin {"eph_connect", "eph_send", "eph_settle"})
    /\ [][\A t \in Tasks :
              ( /\ TimedOut(t)
                /\ tk'[t].op = "send_to_panel"
                /\ tk'[t].attempt = tk[t].attempt ) =>
                  /\ tk'[t].sent = tk[t].sent
                  /\ tk'[t].nfresh = tk[t].nfresh
                  /\ tk'[t].events = tk[t].events
                  /\ tk'[t].outs = tk[t].outs]_vars

\* C28 witness: the last attempt's deadline expired while the payload was
\* being sent; the callback has had the timeout event as its last one and the
\* call has returned.
C28_Witness ==
    \E t \in Tasks :
        /\ TimedOut(t) /\ tk[t].pc = "returned"
        /\ tk[t].cb.present
        /\ Len(tk[t].events) >= 3
        /\ tk[t].events[Len(tk[t].events)].label = "timeout"
        /\ tk[t].events[Len(tk[t].events) - 1].label = "sending"
        /\ tk[t].sent = 0

\* C30 (as claimed): PersistentSession.connect creates a session for a held
\* link only when the link holds none, its earlier session having been
\* disconnected.
C30_SessionDisconnectedBeforeReplaced ==
    [][\A t \in Tasks :
          ( /\ tk'[t].pc = "held_connect" /\ tk[t].pc # "held_connect"
            /\ tk'[t].link \in DOMAIN links ) =>
              links[tk'[t].link].session = "None"]_vars

\* Task t is in the get_persistent_session call that put the entry of its
\* address into the pool, and the pool holds that entry.
Inserted(t) ==
    /\ tk[t].op = "get_persistent_session" /\ tk[t].gps = "new"
    /\ tk[t].link # 0
    /\ Upper(tk[t].mac) \in PoolKeys(pool)
    /\ PoolLink(pool, Upper(tk[t].mac)) = tk[t].link

\* C31: a get_persistent_session call for an address whose entry another call
\* has just inserted and is connecting adds no entry and waits on that entry
\* (no close_all_sessions having cleared the pool in between);
\* when the first call's connect has succeeded, the second call gets the lock,
\* invokes no connect and returns the same held link.
C31_ConcurrentGetsShareOneEntry ==
    [][\A t, u \in Tasks :
          (t # u /\ Inserted(t)) =>
              /\ ( /\ tk[t].pc = "held_connect"
                   /\ tk[u].pc = "idle"
                   /\ tk'[u].op = "get_persistent_session"
                   /\ Upper(tk'[u].mac) = Upper(tk[t].mac) ) =>
                       /\ pool' = pool /\ Len(links') = Len(links)
                       /\ tk'[u].pc = "lock_wait" /\ tk'[u].link = tk[t].link
                       /\ tk'[u].nheld = 0
              /\ ( /\ tk[t].pc = "returned" /\ tk[t].link # 0
                   /\ tk[u].op = "get_persistent_session"
                   /\ tk[u].pc = "lock_wait" /\ tk[u].link = tk[t].link
                   /\ tk'[u].pc # "lock_wait" ) =>
                       /\ pool' = pool /\ Len(links') = Len(links)
                       /\ tk'[u].pc = "returned" /\ tk'[u].link = tk[t].link
                       /\ tk'[u].nheld = 0]_vars

\* C31 witness: two calls for one new address have both returned the same
\* link; the first inserted the entry and connected it, the second found the
\* entry while it was being connected and invoked no connect.
C31_Witness ==
    \E t, u \in Tasks :
        /\ t # u /\ Inserted(t) /\ tk[t].pc = "returned" /\ tk[t].nheld = 1
        /\ tk[u].op = "get_persistent_session" /\ tk[u].pc = "returned"
        /\ tk[u].gps = "found" /\ ~tk[u].preConn /\ tk[u].nheld = 0
        /\ tk[t].link # 0 /\ tk[u].link = tk[t].link
        /\ Upper(tk[u].mac) = Upper(tk[t].mac)
        /\ Cardinality({k \in DOMAIN pool : pool[k].key = Upper(tk[t].mac)}) = 1

\* The positions of the timeout and error events in a sequence of events.
FailureEvents(ev) == {i \in DOMAIN ev : ev[i].label \in {"timeout", "error"}}

\* C32: with a progress callback and retries >= 1, every "sending" event of an
\* ephemeral attempt comes right after that attempt's "connecting" event (the
\* one "sending" of the pooled path is the call's first event); a call that
\* returns success has "success" as its last event; a call that returns
\* failure has exactly one timeout or error event, as its last event, and the
\* returned message is that event's.
C32_EventsInOrder ==
    \A t \in Tasks :
        ( /\ tk[t].op = "send_to_panel" /\ tk[t].cb.present
          /\ tk[t].retries >= 1 ) =>
            LET ev == tk[t].events
                n == Len(ev)
            IN  /\ \A i \in DOMAIN ev :
                       ev[i].label = "sending" =>
                           \/ i = 1 /\ tk[t].use_persistent
                           \/ i > 1 /\ ev[i - 1].label = "connecting"
                /\ (tk[t].pc = "returned" /\ tk[t].ret.ok) =>
                       n >= 1 /\ ev[n].label = "success"
                /\ (tk[t].pc = "returned" /\ ~tk[t].ret.ok) =>
                       /\ n >= 1 /\ FailureEvents(ev) = {n}
                       /\ ev[n].label = "timeout" => tk[t].ret.msg = TimeoutMessage
                       /\ ev[n].label = "error" => tk[t].ret.msg = ev[n].detail

\* C32 witness: a call with a callback has failed on its second attempt with
\* an error; the error event is its last and only failure event.
C32_Witness ==
    \E t \in Tasks :
        /\ tk[t].op = "send_to_panel" /\ tk[t].cb.present
        /\ tk[t].retries = 2 /\ tk[t].attempt = 2
        /\ tk[t].pc = "returned" /\ ~tk[t].ret.ok
        /\ Len(tk[t].events) >= 3
        /\ tk[t].events[Len(tk[t].events)].label = "error"
        /\ tk[t].ret.msg = tk[t].events[Len(tk[t].events)].detail
        /\ FailureEvents(tk[t].events) = {Len(tk[t].events)}

\* What the loop over fresh sessions returns, given the outcomes of its
\* attempts: "OK" after an attempt that succeeded, the last attempt's timeout
\* or error message, or "Max retries exceeded" when the loop has no attempt.
FreshResult(outs, retries) ==
    LET n == Len(outs)
    IN  IF retries < 1 THEN [ok |-> FALSE, msg |-> "Max retries exceeded"]
        ELSE IF n = 0 THEN [ok |-> FALSE, msg |-> ""]
        ELSE IF outs[n].kind = "ok" THEN [ok |-> TRUE, msg |-> "OK"]
        ELSE IF outs[n].kind = "timeout" THEN [ok |-> FALSE, msg |-> TimeoutMessage]
        ELSE [ok |-> FALSE, msg |-> outs[n].msg]

\* The send_to_panel call of task t went to the pool and got no link.
Absent(t) ==
    /\ tk[t].op = "send_to_panel" /\ tk[t].use_persistent
    /\ tk[t].gps # "none" /\ ~tk[t].pooled /\ ~tk[t].heldFail
    /\ tk[t].pc \notin {"start", "lock_wait", "held_connect", "held_send"}

\* C33: a send_to_panel call whose get_persistent_session returned None (the
\* pool was full, or the held link's connect failed) raises nothing, and it
\* returns what a call with use_persistent = false returns for the same
\* outcomes of the fresh sessions' attempts.
C33_AbsentLinkSameAsUnpooled ==
    \A t \in Tasks :
        /\ Absent(t) => tk[t].pc # "raised"
        /\ ( /\ tk[t].op = "send_to_panel" /\ tk[t].pc = "returned"
             /\ Absent(t) \/ ~tk[t].use_persistent ) =>
               tk[t].ret = FreshResult(tk[t].outs, tk[t].retries)

\* C33 witness: the held link's connect failed, and the call has returned the
\* success of its second fresh session.
C33_Witness ==
    \E t \in Tasks :
        /\ Absent(t) /\ tk[t].pc = "returned"
        /\ tk[t].gps \in {"new", "found"} /\ tk[t].nheld = 1
        /\ tk[t].attempt = 2 /\ tk[t].ret.ok
        /\ tk[t].ret = FreshResult(tk[t].outs, tk[t].retries)

\* C34: a held link marked connected has a session, in every state and under
\* every interleaving; a link whose connect begins has a session while its
\* flag is still false, a link whose disconnect has ended has neither session
\* nor flag, and a send_frame that fails clears the flag and keeps the session.
C34_ConnectedHasSession ==
    /\ [](\A k \in DOMAIN links : links[k].connected => links[k].session # "None")
    /\ [](\A t \in Tasks :
              tk[t].pc = "held_connect" =>
                  links[tk[t].link].session # "None" /\ ~links[tk[t].link].connected)
    /\ [][\A t \in Tasks :
              LET id == tk[t].link
              IN  /\ ( /\ tk[t].pc = "close_disconnect" /\ tk'[t].pc # "close_disconnect"
                       /\ id \in DOMAIN links' ) => Cleared(links'[id])
                  /\ ( /\ tk[t].pc = "held_send" /\ tk'[t].heldFail
                       /\ id \in DOMAIN links' ) =>
                         /\ ~links'[id].connected
                         /\ links'[id].session = links[id].session]_vars

\* C34 witness: a send is under way on a held link that is marked connected
\* and has its session.
C34_Witness ==
    \E t \in Tasks :
        /\ tk[t].op = "send_to_panel" /\ tk[t].pc = "held_send"
        /\ tk[t].link \in DOMAIN links
        /\ Live(links[tk[t].link])

\* C35: send_to_panel returns "Max retries exceeded" only with retries < 1,
\* and then as a failure of a call that opened no fresh session; with
\* retries < 1 a call opens no fresh session and succeeds exactly when its
\* send over the pooled link did, returning that message otherwise.
C35_MaxRetriesOnlyWithoutAttempts ==
    \A t \in Tasks :
        (tk[t].op = "send_to_panel" /\ tk[t].pc = "returned") =>
            /\ tk[t].ret.msg = "Max retries exceeded" =>
                   tk[t].retries < 1 /\ ~tk[t].ret.ok /\ tk[t].nfresh = 0
            /\ tk[t].retries < 1 =>
                   /\ tk[t].nfresh = 0
                   /\ tk[t].ret.ok <=> tk[t].pooled
                   /\ ~tk[t].pooled => tk[t].ret.msg = "Max retries exceeded"

\* C35 witness: with retries = 0 the send over the pooled link failed and the
\* call has returned "Max retries exceeded" without a fresh session.
C35_Witness ==
    \E t \in Tasks :
        /\ tk[t].op = "send_to_panel" /\ tk[t].pc = "returned"
        /\ tk[t].retries = 0 /\ tk[t].use_persistent /\ tk[t].heldFail
        /\ tk[t].nfresh = 0 /\ ~tk[t].ret.ok
        /\ tk[t].ret.msg = "Max retries exceeded"

\* C36: every pool key is the upper-case form of an address and is the address
\* stored in its held link, no two entries have keys that agree up to letter
\* case, and a call that holds a link holds the entry of its address's
\* upper-case form.
C36_PoolKeysUpperCase ==
    /\ \A k \in DOMAIN pool :
           /\ pool[k].key = Upper(pool[k].key)
           /\ \E a \in Addrs : pool[k].key = Upper(a)
           /\ links[pool[k].link].mac = pool[k].key
    /\ \A j, k \in DOMAIN pool :
           Upper(pool[j].key) = Upper(pool[k].key) => j = k
    /\ \A t \in Tasks :
           (tk[t].link # 0 /\ tk[t].op # "close_all_sessions") =>
               /\ Upper(tk[t].mac) \in PoolKeys(pool)
               /\ tk[t].link = PoolLink(pool, Upper(tk[t].mac))

\* C36 witness: a fan-out over <<"aa", "AA">> has sent to "aa" over a new
\* entry and is sending to "AA" over the same entry, the pool's only one.
C36_Witness ==
    \E t \in Tasks :
        /\ tk[t].op \in FanOps /\ tk[t].use_persistent
        /\ tk[t].panels = <<"aa", "AA">>
        /\ Len(tk[t].results) = 1 /\ tk[t].results[1].success
        /\ tk[t].mac = "AA" /\ tk[t].gps = "found" /\ tk[t].pc = "held_send"
        /\ Len(pool) = 1 /\ pool[1].key = "AA"
        /\ tk[t].link = pool[1].link

\* C37 (as claimed): the third argument of the progress callback is true on
\* the success, timeout and error events and false on the connecting and
\* sending events.
C37_FinalFlagOnEndingEvents ==
    \A t \in Tasks :
        tk[t].op = "send_to_panel" =>
            \A i \in DOMAIN tk[t].events :
                tk[t].events[i].final <=>
                    tk[t].events[i].label \in {"success", "timeout", "error"}

====
